---- MODULE Spec2Model ----
(***************************************************************************)
(* Model of src/app.py, the Streamlit salary dashboard.                    *)
(*                                                                         *)
(* The script is one top-to-bottom run: read the CSV, rename the columns,  *)
(* replace the categorical codes, build the four sidebar multiselects,     *)
(* filter, compute the KPIs and fill the four chart regions.  Streamlit    *)
(* runs the whole script once when the page is opened and once more for    *)
(* every widget interaction; the only state that survives a run is the     *)
(* value of each widget.                                                   *)
(*                                                                         *)
(* A table is a record [cols, rows]: cols is the set of column names and   *)
(* rows a sequence of functions from cols to cell values.  Means are kept  *)
(* as exact fractions [num, den] and compared by cross-multiplication.     *)
(***************************************************************************)
EXTENDS Integers, Sequences, FiniteSets, TLC

\* ------------------------------------------------------------------ bounds
MaxRows == 3
MaxRowsMissing == 2
MaxRuns == 4
TopRows == 11

\* nlargest(10)
TopN == 10

\* ------------------------------------------------------------ pure helpers
Range(s) == {s[i] : i \in 1..Len(s)}

RECURSIVE MaskSeq(_, _)
MaskSeq(s, keep) ==
    IF s = <<>> THEN <<>>
    ELSE IF keep[1] THEN <<Head(s)>> \o MaskSeq(Tail(s), Tail(keep))
    ELSE MaskSeq(Tail(s), Tail(keep))

\* Python orders str by code point; the strings a cell can hold, in that order.
StrOrder ==
    <<"", "Analytics Engineer", "BI Developer", "BRA", "Data Analyst",
      "Data Architect", "Data Engineer", "Data Manager", "Data Scientist",
      "ML Engineer", "MLOps Engineer", "NLP Engineer", "Research Engineer",
      "Research Scientist", "USA", "USD", "contract", "contrato",
      "entry level", "executive", "executivo", "freelance", "full time",
      "grande", "hibrido", "hybrid", "integral", "junior", "large", "media",
      "medium", "mid-level", "onsite", "parcial", "part time", "pequena",
      "pleno", "presencial", "remote", "remoto", "senior", "small">>

StrIndex == [s \in Range(StrOrder) |-> CHOOSE i \in 1..Len(StrOrder) : StrOrder[i] = s]

StrRank(s) == StrIndex[s]

\* ------------------------------------------------------- schema normalizer
COL_MAP ==
    [ano |-> "year", senioridade |-> "seniority", contrato |-> "contract_type",
     cargo |-> "role", salario |-> "salary", moeda |-> "currency",
     usd |-> "usd", residencia |-> "country",
     residencia_iso3 |-> "country_iso3", experiencia |-> "experience",
     tamanho_empresa |-> "company_size", remoto |-> "work_model"]

VALUE_MAP ==
    [executivo |-> "executive", junior |-> "entry level",
     pleno |-> "mid-level", senior |-> "senior", integral |-> "full time",
     parcial |-> "part time", contrato |-> "contract", remoto |-> "remote",
     hibrido |-> "hybrid", presencial |-> "onsite", media |-> "medium",
     grande |-> "large", pequena |-> "small"]

\* The columns pandas reads with a numeric dtype: no str key equals a number.
NumericCols == {"ano", "year", "salario", "salary", "usd"}

RenameCol(c) == IF c \in DOMAIN COL_MAP THEN COL_MAP[c] ELSE c

\* The source name of each canonical name
COL_INV == [c2 \in {COL_MAP[c] : c \in DOMAIN COL_MAP} |->
               CHOOSE c \in DOMAIN COL_MAP : COL_MAP[c] = c2]

\* The column of tbl that carries the name c2 after the renaming
SourceCol(tbl, c2) ==
    IF c2 \in DOMAIN COL_INV /\ COL_INV[c2] \in tbl.cols THEN COL_INV[c2] ELSE c2

\* df.rename(columns=COL_MAP)
rename(tbl) ==
    LET newcols == {RenameCol(c) : c \in tbl.cols}
    IN  [cols |-> newcols,
         rows |-> [i \in 1..Len(tbl.rows) |->
                      [c2 \in newcols |-> tbl.rows[i][SourceCol(tbl, c2)]]]]

ReplaceCellScoped(col, v) ==
    IF col \in {"seniority", "contract_type", "company_size", "work_model"}
          /\ v \in DOMAIN VALUE_MAP
    THEN VALUE_MAP[v] ELSE v

\* One cell of df.replace(VALUE_MAP): the column is not consulted, only the
\* value (a number never equals a str key).
ReplaceCell(col, v) ==
    IF col \in NumericCols THEN v
    ELSE IF v \in DOMAIN VALUE_MAP THEN VALUE_MAP[v] ELSE v

\* df.replace(VALUE_MAP)
replace(tbl) ==
    [cols |-> tbl.cols,
     rows |-> [i \in 1..Len(tbl.rows) |->
                  [c \in tbl.cols |-> ReplaceCell(c, tbl.rows[i][c])]]]

\* ------------------------------------------------------------ filter engine
FilterCols == <<"year", "seniority", "contract_type", "company_size">>

\* df[col].unique(), as a set
unique(tbl, col) == {tbl.rows[i][col] : i \in 1..Len(tbl.rows)}

Less(col, a, b) ==
    IF col \in NumericCols THEN a < b ELSE StrRank(a) < StrRank(b)

\* sorted(df[col].unique())
RECURSIVE SortedSeq(_, _)
SortedSeq(col, S) ==
    IF S = {} THEN <<>>
    ELSE LET m == CHOOSE x \in S : \A y \in S \ {x} : Less(col, x, y)
         IN  <<m>> \o SortedSeq(col, S \ {m})

sorted_unique(tbl, col) == SortedSeq(col, unique(tbl, col))

isinOrAll(v, selected) == selected = {} \/ v \in selected

\* Series.isin(selected), one cell
isin(v, selected) == v \in selected

RowPassesCopied(row, sel) ==
    /\ isin(row["year"], sel["year"])
    /\ isin(row["seniority"], sel["seniority"])
    /\ isin(row["contract_type"], sel["seniority"])
    /\ isin(row["company_size"], sel["company_size"])

RowPassesAny(row, sel) ==
    \E k \in 1..Len(FilterCols) : isin(row[FilterCols[k]], sel[FilterCols[k]])

\* The boolean mask of lines 66-69, one row
RowPasses(row, sel) ==
    /\ isin(row["year"], sel["year"])
    /\ isin(row["seniority"], sel["seniority"])
    /\ isin(row["contract_type"], sel["contract_type"])
    /\ isin(row["company_size"], sel["company_size"])

\* df[mask]: the rows kept, in their original order
filter_rows(tbl, sel) ==
    MaskSeq(tbl.rows, [i \in 1..Len(tbl.rows) |-> RowPasses(tbl.rows[i], sel)])

\* ------------------------------------------------------- aggregation engine
RECURSIVE SumUsd(_)
SumUsd(rows) == IF rows = <<>> THEN 0 ELSE Head(rows)["usd"] + SumUsd(Tail(rows))

\* Series.mean() as an exact fraction; 0/0 stands for the NaN of an empty Series
mean(rows) == [num |-> SumUsd(rows), den |-> Len(rows)]

FracLess(a, b) == a.num * b.den < b.num * a.den

\* The int literal 0 of line 85, in the representation of mean()
Zero == [num |-> 0, den |-> 1]

\* Series.max()
max(rows) == CHOOSE m \in {rows[i]["usd"] : i \in 1..Len(rows)} :
                 \A i \in 1..Len(rows) : rows[i]["usd"] <= m

RowsWhere(rows, col, v) ==
    MaskSeq(rows, [i \in 1..Len(rows) |-> rows[i][col] = v])

Count(rows, col, v) == Cardinality({i \in 1..Len(rows) : rows[i][col] = v})

Values(rows, col) == {rows[i][col] : i \in 1..Len(rows)}

\* The first value of the column in row order
FirstSeen(rows, col, S) ==
    rows[CHOOSE i \in 1..Len(rows) :
             /\ rows[i][col] \in S
             /\ \A j \in 1..(i - 1) : rows[j][col] \notin S][col]

\* The values of maximal count
MostFrequent(rows, col) ==
    LET vals == Values(rows, col)
        cnt == [v \in vals |-> Count(rows, col, v)]
    IN  {v \in vals : \A w \in vals : cnt[w] <= cnt[v]}

modeFirstSeen(rows, col) == <<FirstSeen(rows, col, MostFrequent(rows, col))>>

\* Series.mode(): the values of maximal count, sorted ascending
mode(rows, col) == SortedSeq(col, MostFrequent(rows, col))

\* groupby(col)["usd"].mean(): one entry per group, groups in sorted key order
groupby_mean(rows, col) ==
    LET keys == SortedSeq(col, Values(rows, col))
    IN  [k \in 1..Len(keys) |->
            [key |-> keys[k], usd |-> mean(RowsWhere(rows, col, keys[k]))]]

RemoveAt(s, i) == SubSeq(s, 1, i - 1) \o SubSeq(s, i + 1, Len(s))

RECURSIVE nsmallest(_, _)
nsmallest(s, n) ==
    IF n = 0 \/ s = <<>> THEN <<>>
    ELSE LET i == CHOOSE i \in 1..Len(s) :
                      /\ \A j \in 1..Len(s) : ~FracLess(s[j].usd, s[i].usd)
                      /\ \A j \in 1..(i - 1) : FracLess(s[i].usd, s[j].usd)
         IN  <<s[i]>> \o nsmallest(RemoveAt(s, i), n - 1)

\* Series.nlargest(n), keep="first": the n largest, descending, the earlier
\* entry first among equals
RECURSIVE nlargest(_, _)
nlargest(s, n) ==
    IF n = 0 \/ s = <<>> THEN <<>>
    ELSE LET i == CHOOSE i \in 1..Len(s) :
                      /\ \A j \in 1..Len(s) : ~FracLess(s[i].usd, s[j].usd)
                      /\ \A j \in 1..(i - 1) : FracLess(s[j].usd, s[i].usd)
         IN  <<s[i]>> \o nlargest(RemoveAt(s, i), n - 1)

RECURSIVE Insert(_, _)
Insert(s, e) ==
    IF s = <<>> THEN <<e>>
    ELSE IF FracLess(e.usd, Head(s).usd) THEN <<e>> \o s
    ELSE <<Head(s)>> \o Insert(Tail(s), e)

\* Series.sort_values(ascending=True); the place of equal means among each
\* other is the sort's own business and nothing below relies on it
RECURSIVE sort_values(_)
sort_values(s) ==
    IF s = <<>> THEN <<>> ELSE Insert(sort_values(SubSeq(s, 1, Len(s) - 1)), s[Len(s)])

\* Lines 104-107
top_roles_of(rows) == sort_values(nlargest(groupby_mean(rows, "role"), TopN))

\* ------------------------------------------------------------ the script
VARIABLES
    csv,               \* the table the remote CSV holds
    session,           \* Streamlit's widget state: filter column -> selected set
    df,                \* line 47: the normalized table of the last run
    available,         \* lines 52-61: filter column -> sorted option list
    df_filtered,       \* line 65
    avg_salary, max_salary, total_records, most_common_role,   \* lines 79-87
    top_roles,         \* line 104
    messages,          \* what each of col1..col4 shows
    error,             \* the exception that ended the run, if any
    fetches,           \* how many times line 13 has run
    replaces,          \* how many times lines 29 and 47 have run
    runs               \* how many times the script has run

vars == <<csv, session, df, available, df_filtered, avg_salary, max_salary,
          total_records, most_common_role, top_roles, messages, error,
          fetches, replaces, runs>>

NoError == [type |-> "", key |-> ""]
KeyError(col) == [type |-> "KeyError", key |-> col]

NoTable == [cols |-> {}, rows |-> <<>>]
NoMessages == [col1 |-> "", col2 |-> "", col3 |-> "", col4 |-> ""]
CHART == "chart"

\* The names a run has not bound yet
Blank ==
    [df |-> NoTable, session |-> <<>>, available |-> <<>>,
     df_filtered |-> <<>>, avg_salary |-> Zero, max_salary |-> 0,
     total_records |-> 0, most_common_role |-> "", top_roles |-> <<>>,
     messages |-> NoMessages, error |-> NoError]

\* Lines 13-47: read_csv, rename, replace
Load(tbl) == [Blank EXCEPT !.df = replace(rename(tbl))]

\* The filter columns whose widget line is reached: those before the first
\* one missing from df
RECURSIVE Reached(_, _)
Reached(d, k) ==
    IF k > Len(FilterCols) \/ FilterCols[k] \notin d.cols THEN {}
    ELSE {FilterCols[k]} \cup Reached(d, k + 1)

\* st.sidebar.multiselect(label, options, default=options): the value the
\* session holds for the widget, the default when it holds none
multiselect(sess, col, options) ==
    IF col \in DOMAIN sess THEN sess[col] ELSE Range(options)

\* Lines 52-62
Sidebar(r, sess) ==
    LET made == Reached(r.df, 1)
        opts == [c \in made |-> sorted_unique(r.df, c)]
        absent == {k \in 1..Len(FilterCols) : FilterCols[k] \notin r.df.cols}
    IN  [r EXCEPT
           !.available = opts,
           !.session = [c \in made |-> multiselect(sess, c, opts[c])],
           !.error = IF absent = {} THEN NoError
                     ELSE KeyError(FilterCols[CHOOSE k \in absent :
                                                  \A j \in absent : k <= j])]

\* Lines 65-70
Filter(r) ==
    IF r.error # NoError THEN r
    ELSE [r EXCEPT !.df_filtered = filter_rows(r.df, r.session)]

KpisUnguarded(r) ==
    IF r.error # NoError THEN r
    ELSE IF "usd" \notin r.df.cols THEN [r EXCEPT !.error = KeyError("usd")]
    ELSE IF "role" \notin r.df.cols THEN [r EXCEPT !.error = KeyError("role")]
    ELSE IF r.df_filtered = <<>>
         THEN [r EXCEPT !.avg_salary = mean(r.df_filtered),
                        !.error = KeyError("0")]
    ELSE [r EXCEPT
            !.avg_salary = mean(r.df_filtered),
            !.max_salary = max(r.df_filtered),
            !.total_records = Len(r.df_filtered),
            !.most_common_role = mode(r.df_filtered, "role")[1]]

\* Lines 79-87
Kpis(r) ==
    IF r.error # NoError THEN r
    ELSE IF r.df_filtered = <<>>
         THEN [r EXCEPT !.avg_salary = Zero, !.max_salary = 0,
                        !.total_records = 0, !.most_common_role = ""]
    ELSE IF "usd" \notin r.df.cols THEN [r EXCEPT !.error = KeyError("usd")]
    ELSE IF "role" \notin r.df.cols THEN [r EXCEPT !.error = KeyError("role")]
    ELSE [r EXCEPT
            !.avg_salary = mean(r.df_filtered),
            !.max_salary = max(r.df_filtered),
            !.total_records = Len(r.df_filtered),
            !.most_common_role = mode(r.df_filtered, "role")[1]]

\* Lines 102-119
Col1(r) ==
    IF r.error # NoError THEN r
    ELSE IF r.df_filtered = <<>>
         THEN [r EXCEPT !.messages.col1 = "No data available for roles."]
    ELSE [r EXCEPT !.top_roles = top_roles_of(r.df_filtered),
                   !.messages.col1 = CHART]

\* Lines 121-133
Col2(r) ==
    IF r.error # NoError THEN r
    ELSE IF r.df_filtered = <<>>
         THEN [r EXCEPT !.messages.col2 = "No data available for salary distribution."]
    ELSE [r EXCEPT !.messages.col2 = CHART]

\* Lines 137-152
Col3(r) ==
    IF r.error # NoError THEN r
    ELSE IF r.df_filtered = <<>>
         THEN [r EXCEPT !.messages.col3 = "No data available for work model."]
    ELSE IF "work_model" \notin r.df.cols
         THEN [r EXCEPT !.error = KeyError("work_model")]
    ELSE [r EXCEPT !.messages.col3 = CHART]

iso_colCanonical(cols) == "country_iso3"

\* Line 159
iso_col(cols) == IF "country_iso3" \in cols THEN "country_iso3" ELSE "residencia_iso3"

Col4InfoAlways(r) ==
    IF r.error # NoError THEN r
    ELSE LET df_ds == RowsWhere(r.df_filtered, "role", "Data Scientist")
         IN  IF df_ds = <<>>
             THEN [r EXCEPT !.messages.col4 =
                               "No Data Scientist records in the current filter."]
             ELSE IF iso_col(r.df.cols) \notin r.df.cols
                  THEN [r EXCEPT !.error = KeyError(iso_col(r.df.cols))]
             ELSE [r EXCEPT !.messages.col4 = CHART]

\* Lines 154-173
Col4(r) ==
    IF r.error # NoError THEN r
    ELSE IF r.df_filtered = <<>>
         THEN [r EXCEPT !.messages.col4 = "No data available for countries."]
    ELSE LET df_ds == RowsWhere(r.df_filtered, "role", "Data Scientist")
         IN  IF df_ds = <<>>
             THEN [r EXCEPT !.messages.col4 =
                               "No Data Scientist records in the current filter."]
             ELSE IF iso_col(r.df.cols) \notin r.df.cols
                  THEN [r EXCEPT !.error = KeyError(iso_col(r.df.cols))]
             ELSE [r EXCEPT !.messages.col4 = CHART]

\* One run of the script, top to bottom, from the widget state sess
Script(tbl, sess) == Col4(Col3(Col2(Col1(Kpis(Filter(Sidebar(Load(tbl), sess)))))))

FetchesMemoized(n) == IF n = 0 THEN 1 ELSE n

\* Line 13 is module-level code without a cache decorator: every run executes it
FetchesAfterRun(n) == n + 1

\* Lines 29 and 47, likewise
ReplacesAfterRun(n) == n + 1

\* The script runs and its names are rebound
Run(sess) ==
    \E r \in {Script(csv, sess)} :
        /\ session' = r.session
        /\ df' = r.df
        /\ available' = r.available
        /\ df_filtered' = r.df_filtered
        /\ avg_salary' = r.avg_salary
        /\ max_salary' = r.max_salary
        /\ total_records' = r.total_records
        /\ most_common_role' = r.most_common_role
        /\ top_roles' = r.top_roles
        /\ messages' = r.messages
        /\ error' = r.error
        /\ fetches' = FetchesAfterRun(fetches)
        /\ replaces' = ReplacesAfterRun(replaces)
        /\ runs' = runs + 1
        /\ UNCHANGED csv

\* ------------------------------------------------------------- the tables
AllCols == DOMAIN COL_MAP

Row(ano, sen, ctr, cargo, usd, iso, tam, rem) ==
    [ano |-> ano, senioridade |-> sen, contrato |-> ctr, cargo |-> cargo,
     salario |-> usd, moeda |-> "USD", usd |-> usd, residencia |-> iso,
     residencia_iso3 |-> iso, experiencia |-> sen, tamanho_empresa |-> tam,
     remoto |-> rem]

RowPool ==
    { Row(2024, "junior", "integral", "Data Scientist", 100, "BRA", "media", "remoto"),
      Row(2025, "pleno", "freelance", "Data Engineer", 300, "USA", "grande", "presencial"),
      Row(2024, "pleno", "integral", "Data Engineer", 200, "USA", "media", "hibrido") }

\* The CSV holds at least one data row
SeqsUpTo(S, n) == UNION {[1..k -> S] : k \in 1..n}

Drop(tbl, col) ==
    [cols |-> tbl.cols \ {col},
     rows |-> [i \in 1..Len(tbl.rows) |-> [c \in tbl.cols \ {col} |-> tbl.rows[i][c]]]]

Tables == {[cols |-> AllCols, rows |-> rows] : rows \in SeqsUpTo(RowPool, MaxRows)}

InitWith(T) ==
    /\ csv \in T
    /\ session = <<>>
    /\ df = NoTable
    /\ available = <<>>
    /\ df_filtered = <<>>
    /\ avg_salary = Zero
    /\ max_salary = 0
    /\ total_records = 0
    /\ most_common_role = ""
    /\ top_roles = <<>>
    /\ messages = NoMessages
    /\ error = NoError
    /\ fetches = 0
    /\ replaces = 0
    /\ runs = 0

Init == InitWith(Tables)

\* The columns the script reads
UsedCols == {"ano", "senioridade", "contrato", "tamanho_empresa", "usd", "cargo",
             "remoto", "residencia_iso3"}

\* Tables that lack one of the columns the script reads
TablesMissing ==
    {Drop([cols |-> AllCols, rows |-> rows], c) :
        rows \in SeqsUpTo(RowPool, MaxRowsMissing), c \in UsedCols}

InitMissing == InitWith(TablesMissing)

\* Tables with one row per role, around TopN roles: role a earns 100, role b
\* 200 (and is the only row of 2025), every other role 300
TopRoleNames ==
    <<"Data Scientist", "Data Engineer", "Data Analyst", "ML Engineer",
      "Research Scientist", "Analytics Engineer", "Data Architect",
      "BI Developer", "Data Manager", "Research Engineer", "MLOps Engineer",
      "NLP Engineer">>

TopRow(i, a, b) ==
    Row(IF i = b THEN 2025 ELSE 2024, "senior", "integral", TopRoleNames[i],
        IF i = a THEN 100 ELSE IF i = b THEN 200 ELSE 300,
        "USA", "grande", "remoto")

TablesTop ==
    UNION {{[cols |-> AllCols, rows |-> [i \in 1..n |-> TopRow(i, a, b)]] :
               a \in 1..n, b \in 1..n} : n \in (TopN - 1)..TopRows}

InitTop == InitWith(TablesTop)

\* The page is opened: the first run, every widget at its default
FirstRun ==
    /\ runs = 0
    /\ Run(<<>>)

\* The user changes one multiselect: Streamlit stores the new value and reruns
ChangeSelection ==
    /\ runs > 0
    /\ runs < MaxRuns
    /\ \E c \in DOMAIN session :
          \E S \in SUBSET Range(available[c]) :
             /\ S # session[c]
             /\ Run([session EXCEPT ![c] = S])

\* The user asks for a rerun: the widgets keep their values
Rerun ==
    /\ runs > 0
    /\ runs < MaxRuns
    /\ Run(session)

Next == FirstRun \/ ChangeSelection \/ Rerun

Spec == Init /\ [][Next]_vars

SpecMissing == InitMissing /\ [][Next]_vars

SpecTop == InitTop /\ [][Next]_vars

\* ------------------------------------------------------------ properties
INFO_NO_DS == "No Data Scientist records in the current filter."
WARN_COUNTRIES == "No data available for countries."

\* The four multiselects were built and line 65 ran
FilterRan == runs > 0 /\ DOMAIN session = Range(FilterCols)

InView(row) == \E j \in 1..Len(df_filtered) : df_filtered[j] = row

PassingDims(row) == {c \in Range(FilterCols) : row[c] \in session[c]}

FullSelection == \A c \in Range(FilterCols) : session[c] = unique(df, c)

ViewRoles == {df_filtered[j]["role"] : j \in 1..Len(df_filtered)}

RoleCount(v) == Cardinality({j \in 1..Len(df_filtered) : df_filtered[j]["role"] = v})

RECURSIVE SumOver(_, _)
SumOver(J, f) ==
    IF J = {} THEN 0
    ELSE LET j == CHOOSE j \in J : TRUE IN f[j] + SumOver(J \ {j}, f)

RoleSum(v) ==
    SumOver({j \in 1..Len(df_filtered) : df_filtered[j]["role"] = v},
            [j \in 1..Len(df_filtered) |-> df_filtered[j]["usd"]])

MaxCountRoles == {v \in ViewRoles : \A w \in ViewRoles : RoleCount(w) <= RoleCount(v)}

DsInView == \E j \in 1..Len(df_filtered) : df_filtered[j]["role"] = "Data Scientist"

\* C1: the filtered view holds rows of the normalized table only, and a row of
\* the table is in it exactly when its value in each of the four filter
\* columns is a member of that column's selected set.
C1_FilterConjunction ==
    FilterRan =>
        /\ \A j \in 1..Len(df_filtered) :
              \E i \in 1..Len(df.rows) : df.rows[i] = df_filtered[j]
        /\ \A i \in 1..Len(df.rows) :
              InView(df.rows[i]) <=> PassingDims(df.rows[i]) = Range(FilterCols)
        /\ Len(df_filtered) =
              Cardinality({i \in 1..Len(df.rows) :
                              PassingDims(df.rows[i]) = Range(FilterCols)})

C1_Witness ==
    /\ FilterRan
    /\ \E i, k \in 1..Len(df.rows) :
          /\ InView(df.rows[i])
          /\ ~InView(df.rows[k])
          /\ Cardinality(PassingDims(df.rows[k])) = 3

\* C2: when the selected set of any one filter column is empty the filtered
\* view is empty, whatever the table and the other three selections are.
C2_EmptySelectionEmptyView ==
    FilterRan =>
        ((\E c \in Range(FilterCols) : session[c] = {}) => df_filtered = <<>>)

C2_Witness ==
    /\ FilterRan
    /\ df.rows # <<>>
    /\ df_filtered = <<>>
    /\ \E c \in Range(FilterCols) :
          /\ session[c] = {}
          /\ \A d \in Range(FilterCols) \ {c} : session[d] = unique(df, d)

\* C3: the options of each widget are the distinct values of its column, the
\* first run selects them all, and whenever all four selections are the full
\* set of distinct values the filtered view is the normalized table.
C3_FullUniverseIdentity ==
    FilterRan =>
        /\ \A c \in Range(FilterCols) : Range(available[c]) = unique(df, c)
        /\ runs = 1 => FullSelection
        /\ FullSelection => df_filtered = df.rows

C3_Witness ==
    /\ FilterRan
    /\ runs >= 3
    /\ FullSelection
    /\ Len(df.rows) >= 2
    /\ \A c \in Range(FilterCols) : Cardinality(unique(df, c)) >= 2
    /\ df_filtered = df.rows

\* C4: a run whose filtered view is empty ends without error with average
\* salary 0, max salary 0, record count 0 and most common role "", and the
\* average is a number (not 0/0).
C4_EmptyViewKpis ==
    (FilterRan /\ df_filtered = <<>>) =>
        /\ error = NoError
        /\ avg_salary = Zero
        /\ avg_salary.den # 0
        /\ max_salary = 0
        /\ total_records = 0
        /\ most_common_role = ""

C4_Witness ==
    /\ FilterRan
    /\ df.rows # <<>>
    /\ df_filtered = <<>>
    /\ error = NoError
    /\ messages.col1 = "No data available for roles."

\* C5 as stated: for a non-empty filtered view the most common role has the
\* maximal number of occurrences and, among the roles that share it, is the
\* one met first in the row order of the view.
C5_FirstEncounteredTie ==
    (FilterRan /\ error = NoError /\ df_filtered # <<>>) =>
        /\ most_common_role \in MaxCountRoles
        /\ \E j \in 1..Len(df_filtered) :
              /\ df_filtered[j]["role"] = most_common_role
              /\ \A i \in 1..(j - 1) : df_filtered[i]["role"] \notin MaxCountRoles

\* C5 amended: for a non-empty filtered view the most common role has the
\* maximal number of occurrences and, among the roles that share it, is the
\* smallest in string order.
C5_SmallestTie ==
    (FilterRan /\ error = NoError /\ df_filtered # <<>>) =>
        /\ most_common_role \in MaxCountRoles
        /\ \A w \in MaxCountRoles : StrRank(most_common_role) <= StrRank(w)

C5_Witness ==
    /\ FilterRan
    /\ error = NoError
    /\ Cardinality(MaxCountRoles) >= 2
    /\ df_filtered[1]["role"] \in MaxCountRoles
    /\ df_filtered[1]["role"] # most_common_role

\* C6: for a non-empty filtered view the top-roles table has min(10, number
\* of distinct roles) rows, one per role, each a role of the view with its
\* mean usd; no role left out has a strictly larger mean than a role kept,
\* and the rows ascend by mean.
C6_TopRoles ==
    messages.col1 = CHART =>
        LET kept == {top_roles[k].key : k \in 1..Len(top_roles)}
            Mean(v) == [num |-> RoleSum(v), den |-> RoleCount(v)]
        IN  /\ Len(top_roles) =
                  IF Cardinality(ViewRoles) < TopN THEN Cardinality(ViewRoles) ELSE TopN
            /\ Cardinality(kept) = Len(top_roles)
            /\ \A k \in 1..Len(top_roles) :
                  /\ top_roles[k].key \in ViewRoles
                  /\ top_roles[k].usd = Mean(top_roles[k].key)
            /\ \A v \in ViewRoles \ kept : \A w \in kept : ~FracLess(Mean(w), Mean(v))
            /\ \A k \in 1..(Len(top_roles) - 1) :
                  ~FracLess(top_roles[k + 1].usd, top_roles[k].usd)

C6_Witness ==
    /\ messages.col1 = CHART
    /\ Cardinality(ViewRoles) > TopN
    /\ Len(top_roles) = TopN
    /\ FracLess(top_roles[1].usd, top_roles[TopN].usd)

\* C7 as stated: whenever the filtered view has no Data Scientist row, the
\* view being empty or not, the geographic region shows the informational
\* message.
C7_InfoWheneverNoDs ==
    (FilterRan /\ error = NoError /\ ~DsInView) => messages.col4 = INFO_NO_DS

\* C7 amended: a non-empty filtered view without a Data Scientist row makes
\* the geographic region show the informational message; an empty filtered
\* view makes it show the "No data available for countries." warning.
C7_InfoOnlyWhenNonEmpty ==
    (FilterRan /\ error = NoError) =>
        /\ (df_filtered # <<>> /\ ~DsInView) => messages.col4 = INFO_NO_DS
        /\ df_filtered = <<>> => messages.col4 = WARN_COUNTRIES
        /\ DsInView => messages.col4 = CHART

C7_Witness ==
    /\ FilterRan
    /\ error = NoError
    /\ df_filtered # <<>>
    /\ ~DsInView
    /\ messages.col4 = INFO_NO_DS

\* C8 as stated: over any sequence of runs the CSV is fetched and the table
\* normalized at most once.
C8_FetchedAtMostOnce == fetches <= 1 /\ replaces <= 1

\* C8 amended: every run of the script, the first and each one a filter
\* change triggers, fetches the CSV and normalizes the table once more.
C8_FetchedEveryRun == fetches = runs /\ replaces = runs

C8_Witness ==
    /\ FilterRan
    /\ runs >= 2
    /\ fetches >= 2
    /\ ~FullSelection

\* C9: every cell of every column of the normalized table is VALUE_MAP[v]
\* when the raw cell v is a key of VALUE_MAP and v itself otherwise.
C9_TableWideReplace ==
    runs > 0 =>
        /\ Len(df.rows) = Len(csv.rows)
        /\ df.cols = {RenameCol(c) : c \in csv.cols}
        /\ \A i \in 1..Len(csv.rows) : \A c \in csv.cols :
              LET v == csv.rows[i][c]
              IN  df.rows[i][RenameCol(c)] =
                     IF c \notin NumericCols /\ v \in DOMAIN VALUE_MAP
                     THEN VALUE_MAP[v] ELSE v

C9_Witness ==
    /\ runs > 0
    /\ \E i \in 1..Len(csv.rows) :
          /\ csv.rows[i]["experiencia"] = "junior"
          /\ df.rows[i]["experience"] = "entry level"
    /\ \E i \in 1..Len(csv.rows) :
          /\ csv.rows[i]["contrato"] = "freelance"
          /\ df.rows[i]["contract_type"] = "freelance"

\* The canonical names of the columns the script reads that df lacks
MissingCols == {RenameCol(c) : c \in UsedCols} \ df.cols

\* C10 as stated: when the table lacks a column the script reads, every run
\* ends in a missing-column error naming the canonical column, whatever is
\* selected.
C10_AlwaysFails ==
    runs > 0 => \A c \in MissingCols : error = KeyError(c)

\* C10 amended: a missing filter column ends every run in a KeyError naming
\* it; a missing usd, role or work_model ends the run in a KeyError naming it
\* only when the filtered view is non-empty; a missing country_iso3 ends the
\* run only when the view holds a Data Scientist row, in a KeyError naming
\* residencia_iso3; otherwise the run completes without error.
C10_FailsWhenRead ==
    runs > 0 =>
        \A c \in MissingCols :
            /\ c \in Range(FilterCols) => error = KeyError(c)
            /\ c \in {"usd", "role", "work_model"} =>
                  error = IF df_filtered # <<>> THEN KeyError(c) ELSE NoError
            /\ c = "country_iso3" =>
                  error = IF DsInView THEN KeyError("residencia_iso3") ELSE NoError

C10_Witness ==
    /\ runs > 0
    /\ "usd" \in MissingCols
    /\ df.rows # <<>>
    /\ df_filtered = <<>>
    /\ error = NoError
    /\ messages.col4 = WARN_COUNTRIES

====
